---- MODULE Spec2Model ----
(***************************************************************************)
(* A model of crypto-ecosystems' src/main.rs: the URL classifier           *)
(* (parse_repo_url_type), the validation pass (validate_ecosystems with    *)
(* find_misordered_elements_diff), the canonical writer                    *)
(* (canonical_path, write_ecosystem_to_toml) and the sort command.         *)
(*                                                                         *)
(* Strings.  A Rust String is modelled as a sequence of atoms.  An atom is *)
(* a TLA+ string standing for the run of bytes it spells: "a", "/",        *)
(* "github.com".  The atoms are prefix-free, so comparing two atom         *)
(* sequences atom by atom in the order of AtomOrder is the byte-wise       *)
(* comparison of the strings they spell.                                   *)
(*                                                                         *)
(* Option<T>.  None is <<>> and Some(x) is <<x>>.                          *)
(***************************************************************************)
EXTENDS Integers, Sequences, FiniteSets, TLC

VARIABLES
    pc,             \* the position of the command that is running
    url,            \* parse_repo_url_type: its argument
    url_type,       \* parse_repo_url_type: its result
    ecosystem_map,  \* EcosystemMap: title -> Ecosystem
    pending,        \* validate_ecosystems: the map's values not yet visited
    errors,         \* validate_ecosystems: Vec<ValidationError>
    repo_set,       \* validate_ecosystems: HashSet of the repo urls seen
    tagmap,         \* validate_ecosystems: tag -> count
    missing_count,  \* validate_ecosystems: repos flagged missing
    eco,            \* write_ecosystem_to_toml: its argument
    first_output,   \* the text of the first canonicalization (Option)
    disk,           \* the file system: path -> text
    title_errors,   \* parse_toml_files: Vec<ValidationError>
    next_err,       \* sort: index of the next element of stats.errors
    io_log,         \* the file-system calls made so far, in order
    result,         \* what the command returned (Option)
    runs,           \* how many times the sort command has been started
    loaded_from     \* sort: title -> the path its map entry was read from

vars == <<pc, url, url_type, ecosystem_map, pending, errors, repo_set, tagmap,
          missing_count, eco, first_output, disk, title_errors, next_err,
          io_log, result, runs, loaded_from>>

-----------------------------------------------------------------------------
(* Option<T> *)

None == <<>>

Some(x) == <<x>>

is_some(o) == Len(o) = 1

unwrap(o) == o[1]

\* Option<Vec<T>>::iter().flatten(): the elements of the list, none for None.
flatten(o) == IF is_some(o) THEN unwrap(o) ELSE <<>>

-----------------------------------------------------------------------------
(* Strings *)

\* A 40-byte atom, long enough for two of them to overflow one line.
LongAtom == "c-forty-byte-long-organization-name-0001"

\* Every atom, in ascending byte order of its spelling.
AtomOrder ==
    << " ", "-", ".toml", "/", "?", "A", "B", "GITHUB.com", "a", "b", LongAtom,
       "ecosystems", "github.com", "gitlab.com", "https://", "mailto:",
       "www.github.com" >>

Rank(c) == CHOOSE i \in 1..Len(AtomOrder) : AtomOrder[i] = c

\* char::to_lowercase, atom by atom.
char_to_lowercase(c) ==
    CASE c = "A" -> "a"
      [] c = "B" -> "b"
      [] c = "GITHUB.com" -> "github.com"
      [] OTHER -> c

\* str::to_lowercase
to_lowercase(s) == [i \in 1..Len(s) |-> char_to_lowercase(s[i])]

\* String's Ord: byte-wise lexicographic, a proper prefix is smaller.
StrLess(s, t) ==
    \E k \in 1..(Len(t)) :
        /\ k <= Len(s) + 1
        /\ \A i \in 1..(k - 1) : s[i] = t[i]
        /\ \/ k = Len(s) + 1
           \/ Rank(s[k]) < Rank(t[k])

\* str::len: the number of bytes.
RECURSIVE byte_len(_)
byte_len(s) == IF s = <<>> THEN 0 ELSE Len(Head(s)) + byte_len(Tail(s))

\* The elements of a sequence.
Range(s) == { s[i] : i \in 1..Len(s) }

\* [T]::sort_by_key with the keys given beside the items.  The sort is stable:
\* an item goes after every item with a smaller key and after the earlier items
\* with an equal key.
SortedPosition(keys, j) ==
    1 + Cardinality({ k \in 1..Len(keys) :
                        \/ StrLess(keys[k], keys[j])
                        \/ keys[k] = keys[j] /\ k < j })

\* The same sort made unstable: equal keys come out in reverse order.
UnstableSortByKey(items, keys) ==
    [i \in 1..Len(items) |->
        items[CHOOSE j \in 1..Len(items) :
                i = 1 + Cardinality({ k \in 1..Len(keys) :
                                        \/ StrLess(keys[k], keys[j])
                                        \/ keys[k] = keys[j] /\ k > j })]]

sort_by_key(items, keys) ==
    [i \in 1..Len(items) |->
        items[CHOOSE j \in 1..Len(items) : SortedPosition(keys, j) = i]]

\* v.sort_by_key(|x| x.to_lowercase()) on a Vec<String>
sort_by_lowercase(strings) ==
    sort_by_key(strings, [i \in 1..Len(strings) |-> to_lowercase(strings[i])])

-----------------------------------------------------------------------------
(* url::Url::parse, on the strings of the model: an optional scheme atom     *)
(* followed by atoms that hold no ':'.  "https://" spells a special scheme   *)
(* with its two slashes, "mailto:" a scheme that is not special.             *)

SpecialSchemes == { "https://" }

OtherSchemes == { "mailto:" }

\* The longest prefix of s whose atoms are all outside `stops`.
RECURSIVE TakeUntil(_, _)
TakeUntil(s, stops) ==
    IF s = <<>> \/ Head(s) \in stops THEN <<>>
    ELSE <<Head(s)>> \o TakeUntil(Tail(s), stops)

\* s without its leading "/" atoms.
RECURSIVE SkipSlashes(_)
SkipSlashes(s) ==
    IF s # <<>> /\ Head(s) = "/" THEN SkipSlashes(Tail(s)) ELSE s

DropFirst(s, n) == SubSeq(s, n + 1, Len(s))

\* Url::parse(s) as [ok, host, path]: ok is FALSE for Err(_), host is
\* host_str() and path is path().
\*  - no scheme: Err(RelativeUrlWithoutBase);
\*  - a special scheme: the slashes after "//" are skipped, the host runs to the
\*    next '/' or '?', an empty host is Err(EmptyHost), the host is lower-cased
\*    and an empty path is "/";
\*  - another scheme: followed by "//" it has an authority, whose host is kept
\*    as written and is None when empty; without "//" it has no host.
UrlParse(s) ==
    IF s = <<>> \/ Head(s) \notin (SpecialSchemes \cup OtherSchemes)
    THEN [ok |-> FALSE, host |-> None, path |-> <<>>]
    ELSE IF Head(s) \in SpecialSchemes
    THEN LET rest == SkipSlashes(Tail(s))
             authority == TakeUntil(rest, {"/", "?"})
             path == TakeUntil(DropFirst(rest, Len(authority)), {"?"})
         IN  IF authority = <<>>
             THEN [ok |-> FALSE, host |-> None, path |-> <<>>]
             ELSE [ok |-> TRUE,
                   host |-> Some(to_lowercase(authority)),
                   path |-> IF path = <<>> THEN <<"/">> ELSE path]
    ELSE LET rest == Tail(s)
         IN  IF Len(rest) >= 2 /\ rest[1] = "/" /\ rest[2] = "/"
             THEN LET after == DropFirst(rest, 2)
                      authority == TakeUntil(after, {"/", "?"})
                  IN  [ok |-> TRUE,
                       host |-> IF authority = <<>> THEN None
                                ELSE Some(authority),
                       path |-> TakeUntil(DropFirst(after, Len(authority)),
                                          {"?"})]
             ELSE [ok |-> TRUE, host |-> None,
                   path |-> TakeUntil(rest, {"?"})]

\* str::ends_with('/')
ends_with_slash(s) == s # <<>> /\ s[Len(s)] = "/"

\* path.split('/').collect::<Vec<_>>().len(): one more than the '/' in it.
split_slash_len(path) ==
    Cardinality({ i \in 1..Len(path) : path[i] = "/" }) + 1

parse_repo_url_type(u) ==
    LET parsed == UrlParse(u)
    IN  IF ~parsed.ok THEN "InvalidUrl"
        ELSE IF ~is_some(parsed.host) THEN "InvalidUrl"
        ELSE IF unwrap(parsed.host) \in { <<"github.com">>, <<"www.github.com">> }
        THEN IF ends_with_slash(u) THEN "GithubUnnormalized"
             ELSE IF split_slash_len(parsed.path) = 3 THEN "GithubRepository"
             ELSE IF split_slash_len(parsed.path) = 2
             THEN "GithubUserOrOrganization"
             ELSE "GithubTreeish"
        ELSE "OtherServiceRepository"

-----------------------------------------------------------------------------
(* The records: struct Repo, struct Ecosystem, enum ValidationError *)

Repo(u, tags, missing) == [url |-> u, tags |-> tags, missing |-> missing]

Ecosystem(title, orgs, subs, repos) ==
    [title |-> title, github_organizations |-> orgs, sub_ecosystems |-> subs,
     repo |-> repos]

MissingSubecosystem(parent, child) ==
    [kind |-> "MissingSubecosystem", parent |-> parent, child |-> child]

DuplicateRepoUrl(u) == [kind |-> "DuplicateRepoUrl", url |-> u]

TitleError(file) == [kind |-> "TitleError", file |-> file]

EmptyEcosystem(title) == [kind |-> "EmptyEcosystem", title |-> title]

InvalidRepoUrl(u, t) == [kind |-> "InvalidRepoUrl", url |-> u, url_type |-> t]

UnsortedEcosystem(title, repo_diff, sub_eco_diff, github_org_diff) ==
    [kind |-> "UnsortedEcosystem", ecosystem |-> title,
     repo_diff |-> repo_diff, sub_eco_diff |-> sub_eco_diff,
     github_org_diff |-> github_org_diff]

-----------------------------------------------------------------------------
(* find_misordered_elements_diff *)

\* imara_diff::diff(Histogram, before, after): the unified diff of two texts,
\* held as the two line sequences it is computed from.
unified_diff(before, after) == [before |-> before, after |-> after]

\* find_misordered_elements_diff comparing the lists as written (no
\* lower-casing of the sort key).
find_misordered_elements_diff_case_sensitive(strings) ==
    IF strings = <<>> THEN None
    ELSE LET sorted == sort_by_key(strings, strings)
         IN  IF strings = sorted THEN None
             ELSE Some(unified_diff(strings, sorted))

find_misordered_elements_diff(strings) ==
    IF strings = <<>> THEN None
    ELSE LET sorted == sort_by_lowercase(strings)
         IN  IF strings = sorted THEN None
             ELSE Some(unified_diff(strings, sorted))

-----------------------------------------------------------------------------
(* validate_ecosystems: one iteration of `for ecosystem in ecosystem_map.values()` *)

\* Lines 280-287 with a lookup that ignores case.
RECURSIVE missing_subecosystem_errors_ignoring_case(_, _, _)
missing_subecosystem_errors_ignoring_case(keys, title, subs) ==
    IF subs = <<>> THEN <<>>
    ELSE (IF to_lowercase(Head(subs)) \notin { to_lowercase(k) : k \in keys }
          THEN << MissingSubecosystem(title, Head(subs)) >> ELSE <<>>)
         \o missing_subecosystem_errors_ignoring_case(keys, title, Tail(subs))

\* Lines 280-287: one MissingSubecosystem per entry that is no key of the map.
RECURSIVE missing_subecosystem_errors(_, _, _)
missing_subecosystem_errors(keys, title, subs) ==
    IF subs = <<>> THEN <<>>
    ELSE (IF Head(subs) \notin keys
          THEN << MissingSubecosystem(title, Head(subs)) >> ELSE <<>>)
         \o missing_subecosystem_errors(keys, title, Tail(subs))

RejectedUrlTypes ==
    { "GithubUnnormalized", "GithubTreeish", "GithubUserOrOrganization",
      "InvalidUrl" }

\* The seen_repos test of line 298 on the urls as written.
seen_key_exact(u) == u

\* The key under which line 297 looks a url up in seen_repos.
seen_key(u) == to_lowercase(u)

\* Lines 296-324: the errors the repo loop pushes from entry i on, seen_repos
\* holding the keys of the entries before i.
RECURSIVE repo_loop_errors(_, _, _)
repo_loop_errors(repos, i, seen_repos) ==
    IF i > Len(repos) THEN <<>>
    ELSE LET repo == repos[i]
             lowercase_url == seen_key(repo.url)
             kind == parse_repo_url_type(repo.url)
         IN  (IF lowercase_url \in seen_repos
              THEN << DuplicateRepoUrl(repo.url) >> ELSE <<>>)
             \o (IF kind \in RejectedUrlTypes
                 THEN << InvalidRepoUrl(repo.url, kind) >> ELSE <<>>)
             \o repo_loop_errors(repos, i + 1, seen_repos \cup {lowercase_url})

repo_urls(repos) == [i \in 1..Len(repos) |-> repos[i].url]

\* map_or(false, |v| !v.is_empty())
has_entries(o) == is_some(o) /\ unwrap(o) # <<>>

\* Lines 329-331 with && in place of ||.
empty_ecosystem_errors_any(e) ==
    IF ~(has_entries(e.sub_ecosystems) /\ has_entries(e.github_organizations)
         /\ has_entries(e.repo))
    THEN << EmptyEcosystem(e.title) >> ELSE <<>>

\* Lines 255-268 and 329-331.
empty_ecosystem_errors(e) ==
    IF ~(has_entries(e.sub_ecosystems) \/ has_entries(e.github_organizations)
         \/ has_entries(e.repo))
    THEN << EmptyEcosystem(e.title) >> ELSE <<>>

\* Lines 273-278, 288, 292, 326: the UnsortedEcosystem value of the iteration.
sort_error_of(e) ==
    UnsortedEcosystem(
        e.title,
        IF is_some(e.repo)
        THEN find_misordered_elements_diff(repo_urls(unwrap(e.repo)))
        ELSE None,
        IF is_some(e.sub_ecosystems)
        THEN find_misordered_elements_diff(unwrap(e.sub_ecosystems))
        ELSE None,
        IF is_some(e.github_organizations)
        THEN find_misordered_elements_diff(unwrap(e.github_organizations))
        ELSE None)

\* Lines 333-338.
unsorted_ecosystem_errors(e) ==
    LET sort_error == sort_error_of(e)
    IN  IF \/ is_some(sort_error.sub_eco_diff)
           \/ is_some(sort_error.github_org_diff)
           \/ is_some(sort_error.repo_diff)
        THEN << sort_error >> ELSE <<>>

\* Everything one iteration pushes on `errors`, in the order of the pushes.
ecosystem_errors(keys, e) ==
    missing_subecosystem_errors(keys, e.title, flatten(e.sub_ecosystems))
    \o repo_loop_errors(flatten(e.repo), 1, {})
    \o empty_ecosystem_errors(e)
    \o unsorted_ecosystem_errors(e)

\* Line 303-305: the entries with missing = Some(true).
missing_in(repos) ==
    Cardinality({ i \in 1..Len(repos) : repos[i].missing = Some(TRUE) })

\* Lines 307-312: the occurrences of `tag` in the tags of the entries.
tag_occurrences(repos, tag) ==
    LET n(i) == Cardinality({ j \in 1..Len(flatten(repos[i].tags)) :
                                flatten(repos[i].tags)[j] = tag })
        sum[i \in 0..Len(repos)] == IF i = 0 THEN 0 ELSE sum[i - 1] + n(i)
    IN  sum[Len(repos)]

tags_of(repos) ==
    UNION { Range(flatten(repos[i].tags)) : i \in 1..Len(repos) }

\* tagmap after the iteration: *tagmap.entry(tag).or_insert(0) += 1 per tag.
tagmap_after(map, repos) ==
    [t \in (DOMAIN map) \cup tags_of(repos) |->
        (IF t \in DOMAIN map THEN map[t] ELSE 0) + tag_occurrences(repos, t)]

-----------------------------------------------------------------------------
(* Texts.  A text is the sequence of its lines, each a sequence of atoms and  *)
(* each ended by a line feed in the bytes it stands for: <<>> is an empty     *)
(* line.  Two texts are the same bytes exactly when they are the same lines.  *)

MAX_LINE_LENGTH == 80

\* The elements of a TOML array of strings between its brackets: "a", "b"
RECURSIVE toml_array_items(_)
toml_array_items(strings) ==
    IF strings = <<>> THEN <<>>
    ELSE << "\"" >> \o Head(strings) \o << "\"" >>
         \o (IF Tail(strings) = <<>> THEN <<>> ELSE << ", " >>)
         \o toml_array_items(Tail(strings))

\* serde::Serialize::serialize(&vec, toml::ser::ValueSerializer::new(..)) on
\* a Vec<String>: ["a", "b"], and [] for an empty one.
toml_array(strings) == << "[" >> \o toml_array_items(strings) \o << "]" >>

\* Lines 376-385 and 396-405: the array on one line, or one element per line
\* when the one line is longer than MAX_LINE_LENGTH bytes; an empty line after.
array_lines(key, vec) ==
    IF byte_len(toml_array(vec)) > MAX_LINE_LENGTH
    THEN << << key \o " = [" >> >>
         \o [i \in 1..Len(vec) |-> << "  \"" >> \o vec[i] \o << "\"," >>]
         \o << << "]" >>, <<>> >>
    ELSE << << key \o " = " >> \o toml_array(vec), <<>> >>

\* Lines 417-428: the block of one repo.
repo_block(repo) ==
    << << "[[repo]]" >>, << "url = \"" >> \o repo.url \o << "\"" >> >>
    \o (IF is_some(repo.tags) /\ unwrap(repo.tags) # <<>>
        THEN << << "tags = " >> \o toml_array(unwrap(repo.tags)) >>
        ELSE <<>>)
    \o (IF repo.missing = Some(TRUE) THEN << << "missing = true" >> >> ELSE <<>>)

\* The `included` test of line 413 on the urls as written.
included_key_exact(u) == u

\* The key under which lines 413 and 416 file a url in `included`.
included_key(u) == to_lowercase(u)

\* Lines 412-433: the loop over sorted_repos from its k-th element on, with
\* `included` and the counter i as they are then.
RECURSIVE repo_blocks(_, _, _, _)
repo_blocks(sorted_repos, k, included, i) ==
    IF k > Len(sorted_repos) THEN <<>>
    ELSE IF included_key(sorted_repos[k].url) \in included
    THEN repo_blocks(sorted_repos, k + 1, included, i)
    ELSE repo_block(sorted_repos[k])
         \o (IF i + 1 < Len(sorted_repos) THEN << <<>> >> ELSE <<>>)
         \o repo_blocks(sorted_repos, k + 1,
                        included \cup { included_key(sorted_repos[k].url) },
                        i + 1)

\* Lines 362-433: `output` as write_ecosystem_to_toml builds it.
canonical_text(e) ==
    LET sub_eco_vec == sort_by_lowercase(flatten(e.sub_ecosystems))
        github_org_vec == sort_by_lowercase(flatten(e.github_organizations))
        repos == flatten(e.repo)
        sorted_repos ==
            sort_by_key(repos, [i \in 1..Len(repos) |-> to_lowercase(repos[i].url)])
    IN  << << "# Ecosystem Level Information" >>,
           << "title = \"" >> \o e.title \o << "\"" >>,
           <<>> >>
        \o array_lines("sub_ecosystems", sub_eco_vec)
        \o array_lines("github_organizations", github_org_vec)
        \o << << "# Repositories" >> >>
        \o repo_blocks(sorted_repos, 1, {}, 0)

-----------------------------------------------------------------------------
(* toml::from_str::<Ecosystem>, on the texts of the model: comment lines,     *)
(* empty lines, the three top-level keys with a string or an array of strings *)
(* on one line or one element per line, and [[repo]] tables with the keys     *)
(* url, tags and missing.  The strings of the model hold no quote and no      *)
(* escape.                                                                    *)

\* A line without its first and its last atom: the string between the quotes.
Unquoted(line) == SubSeq(line, 2, Len(line) - 1)

\* The strings of a TOML array given by its atoms.
RECURSIVE parse_toml_array(_)
parse_toml_array(atoms) ==
    IF atoms = <<>> THEN <<>>
    ELSE IF Head(atoms) = "\""
    THEN LET item == TakeUntil(Tail(atoms), { "\"" })
         IN  << item >> \o parse_toml_array(DropFirst(atoms, Len(item) + 2))
    ELSE parse_toml_array(Tail(atoms))

EmptyDocument ==
    [title |-> None, sub_ecosystems |-> None, github_organizations |-> None,
     repo |-> None, open |-> ""]

\* The document after one more line.  `open` names the array whose elements
\* are being read one per line.
parse_line(doc, line) ==
    IF doc.open # ""
    THEN IF line = << "]" >> THEN [doc EXCEPT !.open = ""]
         ELSE [doc EXCEPT ![doc.open] = Some(unwrap(@) \o << Unquoted(line) >>)]
    ELSE IF line = <<>> \/ Head(line) \in { "# Ecosystem Level Information",
                                            "# Repositories" }
    THEN doc
    ELSE IF Head(line) = "title = \""
    THEN [doc EXCEPT !.title = Some(Unquoted(line))]
    ELSE IF Head(line) \in { "sub_ecosystems = ", "github_organizations = " }
    THEN [doc EXCEPT ![IF Head(line) = "sub_ecosystems = "
                       THEN "sub_ecosystems" ELSE "github_organizations"] =
                         Some(parse_toml_array(Tail(line)))]
    ELSE IF Head(line) \in { "sub_ecosystems = [", "github_organizations = [" }
    THEN LET key == IF Head(line) = "sub_ecosystems = ["
                    THEN "sub_ecosystems" ELSE "github_organizations"
         IN  [doc EXCEPT ![key] = Some(<<>>), !.open = key]
    ELSE IF line = << "[[repo]]" >>
    THEN [doc EXCEPT !.repo = Some(flatten(@) \o << Repo(<<>>, None, None) >>)]
    ELSE LET repos == unwrap(doc.repo)
             n == Len(repos)
         IN  IF Head(line) = "url = \""
             THEN [doc EXCEPT !.repo =
                     Some([repos EXCEPT ![n].url = Unquoted(line)])]
             ELSE IF Head(line) = "tags = "
             THEN [doc EXCEPT !.repo =
                     Some([repos EXCEPT ![n].tags =
                                          Some(parse_toml_array(Tail(line)))])]
             ELSE [doc EXCEPT !.repo =
                     Some([repos EXCEPT ![n].missing =
                                          Some(line = << "missing = true" >>)])]

RECURSIVE parse_lines(_, _)
parse_lines(doc, lines) ==
    IF lines = <<>> THEN doc
    ELSE parse_lines(parse_line(doc, Head(lines)), Tail(lines))

\* toml::from_str::<Ecosystem>(&contents), for a text that holds a title.
toml_from_str(text) ==
    LET doc == parse_lines(EmptyDocument, text)
    IN  Ecosystem(unwrap(doc.title), doc.github_organizations,
                  doc.sub_ecosystems, doc.repo)

-----------------------------------------------------------------------------
(* canonical_path *)

AsciiAlphanumeric == { "A", "B", "a", "b" }

\* slug::slugify, byte by byte over a string of one-byte atoms: a letter or
\* digit goes in lower-cased, any run of other bytes becomes one '-', and no
\* '-' starts the slug.
RECURSIVE slugify_onto(_, _)
slugify_onto(slug, s) ==
    IF s = <<>> THEN slug
    ELSE IF Head(s) \in AsciiAlphanumeric
    THEN slugify_onto(Append(slug, char_to_lowercase(Head(s))), Tail(s))
    ELSE IF slug = <<>> \/ slug[Len(slug)] = "-"
    THEN slugify_onto(slug, Tail(s))
    ELSE slugify_onto(Append(slug, "-"), Tail(s))

\* slug::slugify: the trailing '-' is dropped.
slugify(s) ==
    LET slug == slugify_onto(<<>>, s)
    IN  IF slug # <<>> /\ slug[Len(slug)] = "-"
        THEN SubSeq(slug, 1, Len(slug) - 1) ELSE slug

\* canonical_path relative to repo_root, as its components:
\* ecosystems/<first byte of the slug>/<slug>.toml.  It panics on an empty slug.
canonical_path(eco_title) ==
    LET slug == slugify(eco_title)
    IN  << << "ecosystems" >>, << slug[1] >>, slug \o << ".toml" >> >>

\* Path::parent of a path of components
path_parent(path) == SubSeq(path, 1, Len(path) - 1)

-----------------------------------------------------------------------------
(* Bounded inputs *)

\* The Option<Vec<T>> values over P that take n lines of a record: an absent
\* list takes none, a list written empty takes one and every entry takes one.
OptListsOfLen(P, n) ==
    IF n = 0 THEN { None }
    ELSE (IF n = 1 THEN { Some(<<>>) } ELSE {})
         \cup { Some(l) : l \in [1..n -> P] }

\* The ecosystems titled `title` whose three lists take n lines in all.
EcosystemsWith(title, n, SubEntries, OrgEntries, RepoEntries) ==
    UNION { IF i + j > n THEN {}
            ELSE { Ecosystem(title, o, s, r) :
                     o \in OptListsOfLen(OrgEntries, j),
                     s \in OptListsOfLen(SubEntries, i),
                     r \in OptListsOfLen(RepoEntries, n - i - j) } :
            i \in 0..n, j \in 0..n }

\* What a title may have in the map: no entry (None), or an ecosystem of that
\* title with n list entries.
Slots(title, n, SubEntries, OrgEntries, RepoEntries) ==
    (IF n = 0 THEN { None } ELSE {})
    \cup { Some(e) :
             e \in EcosystemsWith(title, n, SubEntries, OrgEntries, RepoEntries) }

\* The map holding the ecosystems of the slots, each filed under its own title
\* (line 214).
MapOf(slots) ==
    LET present == { i \in 1..Len(slots) : is_some(slots[i]) }
        titles == { unwrap(slots[i]).title : i \in present }
    IN  [t \in titles |->
            unwrap(slots[CHOOSE i \in present : unwrap(slots[i]).title = t])]

\* The atoms a url of the classifier's inputs is made of.
UrlAtoms == { "github.com", "www.github.com", "gitlab.com", "/", "a", "?" }

MaxUrlLen == 7

\* Titles of the validated graphs, and the entries of their lists.
TitleA == <<"A">>

TitleLowerA == <<"a">>

SubPool == { <<"A">>, <<"a">>, <<"B">> }

OrgPool == { <<"a">>, <<"B">> }

UrlRepoAB == << "https://", "github.com", "/", "a", "/", "b" >>

UrlRepoABUpper == << "https://", "GITHUB.com", "/", "a", "/", "b" >>

UrlOrgA == << "https://", "github.com", "/", "a" >>

RepoPool ==
    { Repo(UrlRepoAB, None, None),
      Repo(UrlRepoABUpper, Some(<< <<"a">> >>), Some(FALSE)),
      Repo(UrlOrgA, Some(<< <<"a">>, <<"b">> >>), Some(TRUE)) }

MaxEntries == 4

\* Titles and entries of the ecosystems that are written: a title whose slug
\* differs from it, one whose slug is empty, and names long enough for two of
\* them to need more than MAX_LINE_LENGTH bytes as an array.
CanonTitles == { <<"a", " ", "B">>, <<"-">> }

LongPool == { <<"B">>, <<LongAtom>>, <<LongAtom, "a">> }

\* A data file as a contributor may have left it: the lists that are present
\* in the order they were typed, on one line each, and every key of a repo
\* that has a value.
FileOf(e) ==
    << << "title = \"" >> \o e.title \o << "\"" >> >>
    \o (IF is_some(e.sub_ecosystems)
        THEN << << "sub_ecosystems = " >> \o toml_array(unwrap(e.sub_ecosystems)) >>
        ELSE <<>>)
    \o (IF is_some(e.github_organizations)
        THEN << << "github_organizations = " >>
                \o toml_array(unwrap(e.github_organizations)) >>
        ELSE <<>>)
    \o (LET RECURSIVE tables(_)
            tables(repos) ==
                IF repos = <<>> THEN <<>>
                ELSE LET r == Head(repos)
                     IN  << <<>>, << "[[repo]]" >>,
                            << "url = \"" >> \o r.url \o << "\"" >> >>
                         \o (IF is_some(r.tags)
                             THEN << << "tags = " >> \o toml_array(unwrap(r.tags)) >>
                             ELSE <<>>)
                         \o (IF is_some(r.missing)
                             THEN << << IF unwrap(r.missing) THEN "missing = true"
                                        ELSE "missing = false" >> >>
                             ELSE <<>>)
                         \o tables(Tail(repos))
        IN  tables(flatten(e.repo)))

\* The directory the sort command runs on: at most MaxFiles files, at paths of
\* PathPool, each holding a record of SortRecords.  Two of the titles differ
\* in case only, one has a leading space and one has no letter or digit.
MaxFiles == 2

\* How many times the sort command is run on the directory, one after another.
MaxRuns == 2

SortTitles == { <<"A">>, <<"a">>, <<"B">>, <<" ", "B">>, <<"-">> }

PathPool ==
    { << <<"ecosystems">>, <<"a">>, <<"a", ".toml">> >>,
      << <<"ecosystems">>, <<"b">>, <<"b", ".toml">> >>,
      << <<"ecosystems">>, <<"a">>, <<"b", ".toml">> >> }

SortRecords ==
    { Ecosystem(title, None, subs, repos) :
        title \in SortTitles,
        subs \in { None, Some(<< <<"B">>, <<"A">> >>) },
        repos \in { None,
                    Some(<< Repo(UrlRepoAB, None, None), Repo(UrlOrgA, None, None) >>),
                    Some(<< Repo(UrlRepoABUpper, None, None),
                            Repo(UrlRepoAB, None, None) >>) } }

-----------------------------------------------------------------------------
(* The values of the variables a command does not use *)

UrlIdle == url = <<>> /\ url_type = None

ValidateIdle ==
    /\ ecosystem_map = <<>>
    /\ pending = {}
    /\ errors = <<>>
    /\ repo_set = {}
    /\ tagmap = <<>>
    /\ missing_count = 0

CanonIdle == eco = None /\ first_output = None

SortIdle ==
    /\ disk = <<>>
    /\ title_errors = <<>>
    /\ next_err = 0
    /\ io_log = <<>>
    /\ runs = 0
    /\ loaded_from = <<>>

-----------------------------------------------------------------------------
(* parse_repo_url_type as a command of its own *)

InitUrl ==
    /\ pc = "classify"
    /\ \/ url = <<>>
       \/ \E k \in 0..(MaxUrlLen - 1) :
            \E first \in UrlAtoms \cup SpecialSchemes \cup OtherSchemes,
               rest \in [1..k -> UrlAtoms] :
                url = <<first>> \o rest
    /\ url_type = None
    /\ result = None
    /\ ValidateIdle /\ CanonIdle /\ SortIdle

Classify ==
    /\ pc = "classify"
    /\ url_type' = Some(parse_repo_url_type(url))
    /\ pc' = "classified"
    /\ UNCHANGED <<url, ecosystem_map, pending, errors, repo_set, tagmap,
                   missing_count, eco, first_output, disk, title_errors,
                   next_err, io_log, result, runs, loaded_from>>

NextUrl == Classify

SpecUrl == InitUrl /\ [][NextUrl]_vars

-----------------------------------------------------------------------------
(* validate_ecosystems *)

\* The state at line 254, before the first iteration.
InitValidate ==
    /\ pc = "validate"
    /\ \E n1 \in 0..MaxEntries :
        \E n2 \in 0..(MaxEntries - n1) :
            \E s1 \in Slots(TitleA, n1, SubPool, OrgPool, RepoPool),
               s2 \in Slots(TitleLowerA, n2, SubPool, OrgPool, RepoPool) :
                ecosystem_map = MapOf(<<s1, s2>>)
    /\ pending = DOMAIN ecosystem_map
    /\ errors = <<>>
    /\ repo_set = {}
    /\ tagmap = <<>>
    /\ missing_count = 0
    /\ result = None
    /\ UrlIdle /\ CanonIdle /\ SortIdle

\* One iteration of the loop of line 254.  A HashMap yields its values in an
\* order the program does not choose: any value not yet visited may come next.
ValidateEcosystem ==
    /\ pc = "validate"
    /\ \E t \in pending :
        LET e == ecosystem_map[t]
            repos == flatten(e.repo)
        IN  /\ errors' = errors \o ecosystem_errors(DOMAIN ecosystem_map, e)
            /\ repo_set' = repo_set \cup Range(repo_urls(repos))
            /\ tagmap' = tagmap_after(tagmap, repos)
            /\ missing_count' = missing_count + missing_in(repos)
            /\ pending' = pending \ {t}
    /\ UNCHANGED <<pc, url, url_type, ecosystem_map, eco, first_output, disk,
                   title_errors, next_err, io_log, result,
                   runs, loaded_from>>

\* Lines 341-346: the loop is over and the ValidationStats is returned.
ValidateReturn ==
    /\ pc = "validate"
    /\ pending = {}
    /\ result' = Some([ecosystem_count |-> Cardinality(DOMAIN ecosystem_map),
                       repo_count |-> Cardinality(repo_set),
                       missing_count |-> missing_count,
                       errors |-> errors])
    /\ pc' = "validated"
    /\ UNCHANGED <<url, url_type, ecosystem_map, pending, errors, repo_set,
                   tagmap, missing_count, eco, first_output, disk,
                   title_errors, next_err, io_log,
                   runs, loaded_from>>

NextValidate == ValidateEcosystem \/ ValidateReturn

SpecValidate == InitValidate /\ [][NextValidate]_vars

-----------------------------------------------------------------------------
(* The file system.  disk maps the path of every file to its text; a         *)
(* directory exists when a file lies in it.  What a call returns is the      *)
(* environment's choice, within what the state of the disk allows.           *)

IoCall(op, path, ok) == [op |-> op, path |-> path, ok |-> ok]

dir_exists(d, dir) == \E p \in DOMAIN d : path_parent(p) = dir

\* The outcomes lines 435-444 can have for a file at `path`: create_dir_all
\* returns Ok on a directory that exists, the open fails in a directory that
\* does not, and write_all is reached only through a file that was opened.
io_outcomes(d, path, output) ==
    { o \in [dir_ok : BOOLEAN, open_ok : BOOLEAN, written : 0..Len(output)] :
        /\ dir_exists(d, path_parent(path)) => o.dir_ok
        /\ o.open_ok => o.dir_ok
        /\ ~o.open_ok => o.written = 0 }

\* Lines 360-446 for an ecosystem whose slug is not empty, under the outcome o
\* of its calls: the disk and the log afterwards, and whether Ok(()) is
\* returned.  The open truncates the file; a write_all that fails has written
\* o.written lines of the output.
write_ecosystem_to_toml(d, log, e, o) ==
    LET toml_file_path == canonical_path(e.title)
        output == canonical_text(e)
        write_ok == o.written = Len(output)
    IN  [disk |->
            IF o.open_ok
            THEN [p \in DOMAIN d \cup { toml_file_path } |->
                    IF p = toml_file_path THEN SubSeq(output, 1, o.written)
                    ELSE d[p]]
            ELSE d,
         io_log |->
            log \o << IoCall("create_dir_all", path_parent(toml_file_path), o.dir_ok),
                      IoCall("open", toml_file_path, o.open_ok) >>
                \o (IF o.open_ok
                    THEN << IoCall("write_all", toml_file_path, write_ok) >>
                    ELSE <<>>),
         ok |-> o.open_ok /\ write_ok]

-----------------------------------------------------------------------------
(* write_ecosystem_to_toml on its own, then on what it wrote read back *)

InitCanon ==
    /\ pc = "canon"
    /\ \E title \in CanonTitles, n \in 0..MaxEntries :
        \E e \in EcosystemsWith(title, n, LongPool, LongPool, RepoPool) :
            eco = Some(e)
    /\ first_output = None
    /\ disk = <<>>
    /\ io_log = <<>>
    /\ result = None
    /\ title_errors = <<>>
    /\ next_err = 0
    /\ runs = 0
    /\ loaded_from = <<>>
    /\ UrlIdle /\ ValidateIdle

\* write_ecosystem_to_toml(repo_root, eco), lines 360-446, on the ecosystem
\* given at first and then on the one read back.
CanonWrite ==
    /\ pc \in { "canon", "reparsed" }
    /\ LET e == unwrap(eco)
       IN  IF slugify(e.title) = <<>>
           THEN /\ pc' = "panic"
                /\ UNCHANGED <<disk, io_log, first_output, result>>
           ELSE \E o \in io_outcomes(disk, canonical_path(e.title),
                                     canonical_text(e)) :
                  LET after == write_ecosystem_to_toml(disk, io_log, e, o)
                  IN  /\ disk' = after.disk
                      /\ io_log' = after.io_log
                      /\ result' = Some(after.ok)
                      /\ first_output' =
                            IF after.ok /\ pc = "canon"
                            THEN Some(canonical_text(e)) ELSE first_output
                      /\ pc' = IF ~after.ok THEN "io_error"
                               ELSE IF pc = "canon" THEN "written"
                               ELSE "rewritten"
    /\ UNCHANGED <<url, url_type, ecosystem_map, pending, errors, repo_set,
                   tagmap, missing_count, eco, title_errors, next_err,
                   runs, loaded_from>>

\* Lines 207-208 on the file just written: read_to_string, toml::from_str.
CanonReparse ==
    /\ pc = "written"
    /\ eco' = Some(toml_from_str(disk[canonical_path(unwrap(eco).title)]))
    /\ pc' = "reparsed"
    /\ UNCHANGED <<url, url_type, ecosystem_map, pending, errors, repo_set,
                   tagmap, missing_count, first_output, disk, title_errors,
                   next_err, io_log, result,
                   runs, loaded_from>>

NextCanon == CanonWrite \/ CanonReparse

SpecCanon == InitCanon /\ [][NextCanon]_vars

-----------------------------------------------------------------------------
(* The sort command *)

\* str::trim, for strings whose only white space is ' '.
RECURSIVE trim(_)
trim(s) ==
    IF s # <<>> /\ Head(s) = " " THEN trim(Tail(s))
    ELSE IF s # <<>> /\ s[Len(s)] = " " THEN trim(SubSeq(s, 1, Len(s) - 1))
    ELSE s

\* The order glob yields paths in: alphabetical, component by component.
PathLess(p, q) ==
    \E k \in 1..Len(q) :
        /\ k <= Len(p) + 1
        /\ \A i \in 1..(k - 1) : p[i] = q[i]
        /\ \/ k = Len(p) + 1
           \/ StrLess(p[k], q[k])

\* get_toml_files: every file of the directory tree, in glob's order.
get_toml_files(d) ==
    CHOOSE paths \in [1..Cardinality(DOMAIN d) -> DOMAIN d] :
        \A i, j \in DOMAIN paths : i < j => PathLess(paths[i], paths[j])

\* HashMap::insert
insert(map, key, value) ==
    [k \in DOMAIN map \cup { key } |-> IF k = key THEN value ELSE map[k]]

\* Lines 206-223: the loop of parse_toml_files over the paths left, for files
\* that can be read and parsed.
RECURSIVE parse_toml_files_from(_, _, _, _)
parse_toml_files_from(ecosystems, errs, d, paths) ==
    IF paths = <<>> THEN [ecosystems |-> ecosystems, errors |-> errs]
    ELSE LET toml_path == Head(paths)
             ecosystem == toml_from_str(d[toml_path])
             title == ecosystem.title
         IN  parse_toml_files_from(
                 insert(ecosystems, title, ecosystem),
                 IF trim(title) # title
                 THEN Append(errs, TitleError(toml_path)) ELSE errs,
                 d, Tail(paths))

parse_toml_files(d, paths) == parse_toml_files_from(<<>>, <<>>, d, paths)

\* For every key of the map parse_toml_files returns, the toml_path of the
\* iteration whose insert (line 215) left the value the map holds: the last
\* path, in the order of `paths`, whose file has that title.
loaded_paths(d, paths) ==
    LET titled(t) == { i \in 1..Len(paths) : toml_from_str(d[paths[i]]).title = t }
    IN  [t \in { toml_from_str(d[paths[i]]).title : i \in 1..Len(paths) } |->
            paths[CHOOSE i \in titled(t) : \A j \in titled(t) : j <= i]]

InitSort ==
    /\ pc = "sort"
    /\ \E paths \in SUBSET PathPool :
        /\ Cardinality(paths) <= MaxFiles
        /\ \E records \in [paths -> SortRecords] :
             disk = [p \in paths |-> FileOf(records[p])]
    /\ title_errors = <<>>
    /\ next_err = 0
    /\ io_log = <<>>
    /\ result = None
    /\ runs = 1
    /\ loaded_from = <<>>
    /\ UrlIdle /\ ValidateIdle /\ CanonIdle

\* Lines 512-523: the files are listed, read and parsed.  A file that cannot
\* be read makes sort return the error; a title error makes it exit.
SortParse ==
    /\ pc = "sort"
    /\ \/ /\ DOMAIN disk # {}
          /\ pc' = "io_error"
          /\ UNCHANGED <<ecosystem_map, pending, title_errors, loaded_from>>
       \/ LET parsed == parse_toml_files(disk, get_toml_files(disk))
          IN  /\ ecosystem_map' = parsed.ecosystems
              /\ loaded_from' = loaded_paths(disk, get_toml_files(disk))
              /\ pending' = DOMAIN parsed.ecosystems
              /\ title_errors' = parsed.errors
              /\ pc' = IF parsed.errors # <<>> THEN "exit" ELSE "validate"
    /\ UNCHANGED <<url, url_type, errors, repo_set, tagmap, missing_count, eco,
                   first_output, disk, next_err, io_log, result, runs>>

\* The error the loop of line 525 is at.
SortError == unwrap(result).errors[next_err + 1]

\* Lines 525-526: an error that is no UnsortedEcosystem is passed over.
SortSkip ==
    /\ pc = "validated"
    /\ next_err < Len(unwrap(result).errors)
    /\ SortError.kind # "UnsortedEcosystem"
    /\ next_err' = next_err + 1
    /\ UNCHANGED <<pc, url, url_type, ecosystem_map, pending, errors, repo_set,
                   tagmap, missing_count, eco, first_output, disk,
                   title_errors, io_log, result,
                   runs, loaded_from>>

\* Lines 526-532: the ecosystem of an UnsortedEcosystem error is written.
\* canonical_path panics on an empty slug, and `?` makes sort return the error
\* of a write that failed.
SortWrite ==
    /\ pc = "validated"
    /\ next_err < Len(unwrap(result).errors)
    /\ SortError.kind = "UnsortedEcosystem"
    /\ LET e == ecosystem_map[SortError.ecosystem]
       IN  IF slugify(e.title) = <<>>
           THEN /\ pc' = "panic"
                /\ UNCHANGED <<disk, io_log, next_err>>
           ELSE \E o \in io_outcomes(disk, canonical_path(e.title),
                                     canonical_text(e)) :
                  LET after == write_ecosystem_to_toml(disk, io_log, e, o)
                  IN  /\ disk' = after.disk
                      /\ io_log' = after.io_log
                      /\ pc' = IF after.ok THEN pc ELSE "io_error"
                      /\ next_err' = IF after.ok THEN next_err + 1 ELSE next_err
    /\ UNCHANGED <<url, url_type, ecosystem_map, pending, errors, repo_set,
                   tagmap, missing_count, eco, first_output, title_errors,
                   result,
                   runs, loaded_from>>

\* Lines 534-543: the loop is over and sort returns Ok(()).
SortReturn ==
    /\ pc = "validated"
    /\ next_err = Len(unwrap(result).errors)
    /\ pc' = "done"
    /\ UNCHANGED <<url, url_type, ecosystem_map, pending, errors, repo_set,
                   tagmap, missing_count, eco, first_output, disk,
                   title_errors, next_err, io_log, result,
                   runs, loaded_from>>

\* The command is run again on the directory as the run before left it, once
\* that run has returned Ok(()): lines 511-513 in a new process.
SortAgain ==
    /\ pc = "done"
    /\ runs < MaxRuns
    /\ runs' = runs + 1
    /\ pc' = "sort"
    /\ ecosystem_map' = <<>>
    /\ pending' = {}
    /\ errors' = <<>>
    /\ repo_set' = {}
    /\ tagmap' = <<>>
    /\ missing_count' = 0
    /\ title_errors' = <<>>
    /\ next_err' = 0
    /\ result' = None
    /\ loaded_from' = <<>>
    /\ UNCHANGED <<url, url_type, eco, first_output, disk, io_log>>

NextSort ==
    \/ SortParse
    \/ ValidateEcosystem
    \/ ValidateReturn
    \/ SortSkip
    \/ SortWrite
    \/ SortReturn
    \/ SortAgain

SpecSort == InitSort /\ [][NextSort]_vars

-----------------------------------------------------------------------------
(* Notions the properties are stated in *)

\* How often x occurs in a sequence.
Count(seq, x) == Cardinality({ i \in 1..Len(seq) : seq[i] = x })

\* The elements of a sequence that are errors of one kind, in order.
OfKind(seq, kind) ==
    LET Test(e) == e.kind = kind IN SelectSeq(seq, Test)

\* The ecosystems the loop has visited.
Visited == (DOMAIN ecosystem_map) \ pending

\* The step visits ecosystem t.
Visits(t) == t \in pending /\ pending' = pending \ {t}

\* What the step pushed on `errors`.
Pushed == SubSeq(errors', Len(errors) + 1, Len(errors'))

\* Ascending case-insensitive order: no element's lower-cased form is smaller
\* than that of the element before it.  A list is its own stable sort exactly
\* when it is in this order.
InCanonicalOrder(strings) ==
    \A i \in 1..(Len(strings) - 1) :
        ~StrLess(to_lowercase(strings[i + 1]), to_lowercase(strings[i]))

\* Entry i of the list repeats the lower-cased url of an earlier entry.
RepeatsEarlier(repos, i) ==
    \E j \in 1..(i - 1) :
        to_lowercase(repos[j].url) = to_lowercase(repos[i].url)

LowercaseUrls(repos) == { to_lowercase(repos[i].url) : i \in 1..Len(repos) }

AbsentOrEmpty(o) == o = None \/ o = Some(<<>>)

-----------------------------------------------------------------------------
(* C1 *)

\* C1: for every visited ecosystem `parent` and every title `child`, errors
\* holds MissingSubecosystem{parent, child} once per occurrence of child in
\* parent's sub_ecosystems when child is no key of the map, and not at all when
\* child is a key (parent itself included); and no MissingSubecosystem is
\* about an ecosystem not visited or an entry the parent does not list.
C1_MissingSubecosystemPerOccurrence ==
    /\ \A parent \in Visited :
        \A child \in SubPool :
            Count(errors, MissingSubecosystem(parent, child)) =
                IF child \in DOMAIN ecosystem_map THEN 0
                ELSE Count(flatten(ecosystem_map[parent].sub_ecosystems), child)
    /\ \A i \in 1..Len(errors) :
        errors[i].kind = "MissingSubecosystem" =>
            /\ errors[i].parent \in Visited
            /\ errors[i].child \in
                 Range(flatten(ecosystem_map[errors[i].parent].sub_ecosystems))

\* C1 witness: validation is over; an ecosystem lists itself, a title that is
\* no key twice, and got exactly the two errors for the latter.
C1_Witness ==
    /\ pc = "validated"
    /\ \E parent \in DOMAIN ecosystem_map :
        \E child \in SubPool \ DOMAIN ecosystem_map :
            /\ parent \in Range(flatten(ecosystem_map[parent].sub_ecosystems))
            /\ Count(flatten(ecosystem_map[parent].sub_ecosystems), child) = 2
            /\ Len(OfKind(errors, "MissingSubecosystem")) = 2

-----------------------------------------------------------------------------
(* C2 *)

\* C2: the iteration for an ecosystem pushes one DuplicateRepoUrl for each
\* repo entry whose lower-cased url is that of an earlier entry of the same
\* list, in the order of the entries and carrying the entry's url as written:
\* n entries with d distinct lower-cased urls give n - d errors.  What other
\* ecosystems list plays no part.
C2_DuplicatePerRepeatedEntry ==
    [][ \A t \in DOMAIN ecosystem_map :
          Visits(t) =>
            LET repos == flatten(ecosystem_map[t].repo)
                Repeat(i) == RepeatsEarlier(repos, i)
                repeats == SelectSeq([i \in 1..Len(repos) |-> i], Repeat)
                dups == OfKind(Pushed, "DuplicateRepoUrl")
            IN  /\ dups = [k \in 1..Len(repeats) |->
                             DuplicateRepoUrl(repos[repeats[k]].url)]
                /\ Len(dups) = Len(repos) - Cardinality(LowercaseUrls(repos))
      ]_vars

\* C2 witness: validation is over; one ecosystem lists a url twice in two
\* spellings, the other lists that url once, and there is one DuplicateRepoUrl.
C2_Witness ==
    /\ pc = "validated"
    /\ \E t1, t2 \in DOMAIN ecosystem_map :
        LET r1 == flatten(ecosystem_map[t1].repo)
            r2 == flatten(ecosystem_map[t2].repo)
        IN  /\ t1 # t2
            /\ Len(r1) = 2 /\ r1[1].url # r1[2].url
            /\ to_lowercase(r1[1].url) = to_lowercase(r1[2].url)
            /\ Len(r2) = 1 /\ r2[1].url = r1[1].url
            /\ OfKind(errors, "DuplicateRepoUrl") = << DuplicateRepoUrl(r1[2].url) >>

-----------------------------------------------------------------------------
(* C3 *)

\* C3: errors holds exactly one EmptyEcosystem for a visited ecosystem whose
\* sub_ecosystems, github_organizations and repo are each absent or empty,
\* and none for any other ecosystem.
C3_EmptyEcosystemIffNoEntries ==
    \A t \in DOMAIN ecosystem_map :
        Count(errors, EmptyEcosystem(t)) =
            IF /\ t \in Visited
               /\ AbsentOrEmpty(ecosystem_map[t].sub_ecosystems)
               /\ AbsentOrEmpty(ecosystem_map[t].github_organizations)
               /\ AbsentOrEmpty(ecosystem_map[t].repo)
            THEN 1 ELSE 0

\* C3 witness: validation is over; one ecosystem with an absent and two empty
\* lists got its EmptyEcosystem, another with a single entry got none.
C3_Witness ==
    /\ pc = "validated"
    /\ \E t1, t2 \in DOMAIN ecosystem_map :
        /\ ecosystem_map[t1].sub_ecosystems = None
        /\ ecosystem_map[t1].github_organizations = Some(<<>>)
        /\ ecosystem_map[t1].repo = Some(<<>>)
        /\ Len(flatten(ecosystem_map[t2].github_organizations)) = 1
        /\ AbsentOrEmpty(ecosystem_map[t2].sub_ecosystems)
        /\ AbsentOrEmpty(ecosystem_map[t2].repo)
        /\ OfKind(errors, "EmptyEcosystem") = << EmptyEcosystem(t1) >>

-----------------------------------------------------------------------------
(* C5 *)

\* The UnsortedEcosystem errors that name ecosystem t.
UnsortedFor(t) ==
    LET Test(e) == e.kind = "UnsortedEcosystem" /\ e.ecosystem = t
    IN  SelectSeq(errors, Test)

SubsInOrder(e) == InCanonicalOrder(flatten(e.sub_ecosystems))

OrgsInOrder(e) == InCanonicalOrder(flatten(e.github_organizations))

ReposInOrder(e) == InCanonicalOrder(repo_urls(flatten(e.repo)))

\* C5: errors holds at most one UnsortedEcosystem per ecosystem; it holds one
\* for a visited ecosystem exactly when one of its three lists is not in
\* ascending case-insensitive order (not its own stable sort); and the error
\* carries a diff for exactly the lists that are not.  An absent or empty list
\* and a list whose only inversions are between elements equal under
\* lower-casing are in order.
C5_UnsortedEcosystemIffAListOutOfOrder ==
    \A t \in DOMAIN ecosystem_map :
        LET e == ecosystem_map[t]
            found == UnsortedFor(t)
        IN  /\ Len(found) <= 1
            /\ Len(found) = 1 <=>
                 /\ t \in Visited
                 /\ ~(SubsInOrder(e) /\ OrgsInOrder(e) /\ ReposInOrder(e))
            /\ Len(found) = 1 =>
                 /\ is_some(found[1].sub_eco_diff) <=> ~SubsInOrder(e)
                 /\ is_some(found[1].github_org_diff) <=> ~OrgsInOrder(e)
                 /\ is_some(found[1].repo_diff) <=> ~ReposInOrder(e)

\* C5 witness: validation is over; an ecosystem has sub_ecosystems out of
\* order and two repo urls that are equal under lower-casing with the
\* byte-wise larger one first, and its error carries the first diff only.
C5_Witness ==
    /\ pc = "validated"
    /\ \E t \in DOMAIN ecosystem_map :
        LET urls == repo_urls(flatten(ecosystem_map[t].repo))
            found == UnsortedFor(t)
        IN  /\ Len(urls) = 2
            /\ StrLess(urls[2], urls[1])
            /\ to_lowercase(urls[1]) = to_lowercase(urls[2])
            /\ Len(found) = 1
            /\ is_some(found[1].sub_eco_diff)
            /\ found[1].github_org_diff = None
            /\ found[1].repo_diff = None

-----------------------------------------------------------------------------
(* C6 *)

\* The repo urls are sorted case-insensitively and no two are equal under
\* lower-casing: each lower-cased url is smaller than the next.
ReposSortedNoDuplicates(e) ==
    LET urls == repo_urls(flatten(e.repo))
    IN  \A i \in 1..(Len(urls) - 1) :
            StrLess(to_lowercase(urls[i]), to_lowercase(urls[i + 1]))

\* C6 as stated: the iteration for an ecosystem whose repo urls are sorted
\* case-insensitively without duplicates pushes neither an UnsortedEcosystem
\* nor a DuplicateRepoUrl.  (Stated for the ecosystems that have a repo entry,
\* so that it is not refuted by an ecosystem the condition says nothing of.)
C6_AsStated ==
    [][ \A t \in DOMAIN ecosystem_map :
          (/\ Visits(t)
           /\ flatten(ecosystem_map[t].repo) # <<>>
           /\ ReposSortedNoDuplicates(ecosystem_map[t])) =>
            /\ OfKind(Pushed, "UnsortedEcosystem") = <<>>
            /\ OfKind(Pushed, "DuplicateRepoUrl") = <<>>
      ]_vars

\* C6 amended: the iteration for an ecosystem whose repo urls are sorted
\* case-insensitively without duplicates pushes no DuplicateRepoUrl, and an
\* UnsortedEcosystem it pushes carries no repo diff; it pushes no
\* UnsortedEcosystem at all when sub_ecosystems and github_organizations are
\* in ascending case-insensitive order too.
C6_SortedReposGiveNoRepoDiff ==
    [][ \A t \in DOMAIN ecosystem_map :
          (Visits(t) /\ ReposSortedNoDuplicates(ecosystem_map[t])) =>
            LET unsorted == OfKind(Pushed, "UnsortedEcosystem")
            IN  /\ OfKind(Pushed, "DuplicateRepoUrl") = <<>>
                /\ \A i \in 1..Len(unsorted) : unsorted[i].repo_diff = None
                /\ (SubsInOrder(ecosystem_map[t]) /\ OrgsInOrder(ecosystem_map[t]))
                     => unsorted = <<>>
      ]_vars

\* C6 witness: validation is over; an ecosystem has two repo urls in ascending
\* case-insensitive order (the byte-wise larger one first), no duplicate, and
\* github_organizations out of order; it got an UnsortedEcosystem without a
\* repo diff and there is no DuplicateRepoUrl.
C6_Witness ==
    /\ pc = "validated"
    /\ \E t \in DOMAIN ecosystem_map :
        LET urls == repo_urls(flatten(ecosystem_map[t].repo))
            found == UnsortedFor(t)
        IN  /\ Len(urls) = 2
            /\ StrLess(urls[2], urls[1])
            /\ ReposSortedNoDuplicates(ecosystem_map[t])
            /\ Len(found) = 1
            /\ is_some(found[1].github_org_diff)
            /\ found[1].repo_diff = None
            /\ OfKind(errors, "DuplicateRepoUrl") = <<>>

-----------------------------------------------------------------------------
(* C4 *)

\* The non-empty segments of a path: the maximal runs of atoms other than "/".
NonEmptySegments(path) ==
    Cardinality({ i \in 1..Len(path) :
                    path[i] # "/" /\ (i = 1 \/ path[i - 1] = "/") })

GithubHosts == { <<"github.com">>, <<"www.github.com">> }

\* The category C4 gives a url.  Where its cases overlap (one segment and a
\* trailing slash) the trailing slash decides, as in the code, and where they
\* leave a gap (a GitHub url with no segment) any category is taken as right:
\* this is C4 read in the code's favour.
CategoryAsStated(u, got) ==
    LET parsed == UrlParse(u)
        n == NonEmptySegments(parsed.path)
    IN  IF ~parsed.ok \/ parsed.host = None THEN "InvalidUrl"
        ELSE IF unwrap(parsed.host) \notin GithubHosts
        THEN "OtherServiceRepository"
        ELSE IF ends_with_slash(u) THEN "GithubUnnormalized"
        ELSE IF n = 2 THEN "GithubRepository"
        ELSE IF n = 1 THEN "GithubUserOrOrganization"
        ELSE IF n > 2 THEN "GithubTreeish"
        ELSE got

\* C4 as stated: parse_repo_url_type returns, for every string, the category
\* the spec defines for it from the host, the number of non-empty path
\* segments and the trailing slash.
C4_AsStated ==
    pc = "classified" =>
        unwrap(url_type) = CategoryAsStated(url, unwrap(url_type))

\* C4 witness of the failing input: "https://github.com//a", one non-empty
\* segment and no trailing slash, has been classified.
C4_Witness ==
    /\ pc = "classified"
    /\ url = << "https://", "github.com", "/", "/", "a" >>
    /\ url_type = Some("GithubRepository")

-----------------------------------------------------------------------------
(* The canonical writer *)

\* The repo tables of a text, in the order they stand in it.
RepoBlocks(text) == flatten(toml_from_str(text).repo)

\* What a repo reads back as once written: its url as spelled, its tags when
\* it has some, its missing flag when it is true.
AsWritten(r) ==
    Repo(r.url,
         IF flatten(r.tags) = <<>> THEN None ELSE r.tags,
         IF r.missing = Some(TRUE) THEN r.missing ELSE None)

\* The first entry of a repo list whose lower-cased url is key.
FirstWithUrl(repos, key) ==
    repos[CHOOSE j \in 1..Len(repos) :
            /\ to_lowercase(repos[j].url) = key
            /\ \A k \in 1..(j - 1) : to_lowercase(repos[k].url) # key]

\* The file write_ecosystem_to_toml writes for the ecosystem in hand.
WrittenFile == disk[canonical_path(unwrap(eco).title)]

\* C7: once write_ecosystem_to_toml has written an ecosystem, the repo blocks
\* of the text are in strictly ascending order of lower-cased url (so no
\* lower-cased url is there twice), their lower-cased urls are exactly those of
\* the input repo list, and each block is the first input entry with its
\* lower-cased url: that entry's url spelling, tags and missing flag.
C7_RepoBlocksSortedFirstKept ==
    pc = "written" =>
        LET input == flatten(unwrap(eco).repo)
            blocks == RepoBlocks(WrittenFile)
        IN  /\ \A i \in 1..(Len(blocks) - 1) :
                 StrLess(to_lowercase(blocks[i].url),
                         to_lowercase(blocks[i + 1].url))
            /\ LowercaseUrls(blocks) = LowercaseUrls(input)
            /\ \A i \in 1..Len(blocks) :
                 blocks[i] =
                     AsWritten(FirstWithUrl(input, to_lowercase(blocks[i].url)))

\* An ecosystem has been written whose repo list holds the same lower-cased url
\* in two spellings, the upper-case one first, after an entry that sorts behind
\* them: two blocks are written and the upper-case spelling is the one kept.
C7_Witness ==
    /\ pc = "written"
    /\ LET input == flatten(unwrap(eco).repo)
       IN  /\ Len(input) = 3
           /\ input[1].url = UrlRepoABUpper
           /\ input[2].url = UrlOrgA
           /\ input[3].url = UrlRepoAB
           /\ Len(RepoBlocks(WrittenFile)) = 2
           /\ RepoBlocks(WrittenFile)[2].url = UrlRepoABUpper

\* C8 as stated: when the text written for an ecosystem is parsed and the
\* result is written again, the file holds the same bytes as after the first
\* write, whatever the repo list held.
C8_AsStated ==
    pc = "rewritten" => WrittenFile = unwrap(first_output)

\* The text written for two entries with the same lower-cased url has been
\* read back and written again, and the file is one line shorter than the
\* first text: the empty line after the last block is gone.
C8_Witness ==
    /\ pc = "rewritten"
    /\ Len(unwrap(first_output)) = Len(WrittenFile) + 1
    /\ unwrap(first_output)[Len(unwrap(first_output))] = <<>>
    /\ SubSeq(unwrap(first_output), 1, Len(WrittenFile)) = WrittenFile

-----------------------------------------------------------------------------
(* The sort command *)

\* The titles validate reported as UnsortedEcosystem, those with an empty slug
\* left out.
ReportedUnsorted ==
    { err.ecosystem : err \in { e \in Range(unwrap(result).errors) :
                                    e.kind = "UnsortedEcosystem" } }
    \ { t \in DOMAIN ecosystem_map : slugify(t) = <<>> }

\* sort has returned, with Ok(()) or with the error of a write.
SortReturned == pc \in { "done", "io_error" } /\ result # None

\* A call on the file of title t, or on its directory, has failed.
IoFailedFor(t) ==
    \E k \in 1..Len(io_log) :
        /\ ~io_log[k].ok
        /\ io_log[k].path \in { canonical_path(t), path_parent(canonical_path(t)) }

\* The whole text of title t has been written to its file.
WrittenBySort(t) ==
    \E k \in 1..Len(io_log) :
        io_log[k] = IoCall("write_all", canonical_path(t), TRUE)

\* C9 as stated: when sort has returned, every ecosystem reported as
\* UnsortedEcosystem for which no call failed has been written, whichever
\* ecosystem a call failed for and wherever that one came in the order; and
\* after a create_dir_all that failed, the file in that directory is not opened.
C9_AsStated ==
    SortReturned =>
        /\ \A t \in ReportedUnsorted : ~IoFailedFor(t) => WrittenBySort(t)
        /\ \A k \in 1..(Len(io_log) - 1) :
             (io_log[k].op = "create_dir_all" /\ ~io_log[k].ok)
                => io_log[k + 1].op # "open"

\* sort has returned the error of an open that failed in a directory that was
\* there, for the first of two unsorted ecosystems; no call was made for the
\* second one, which was to go to another directory.
C9_Witness ==
    /\ pc = "io_error"
    /\ result # None
    /\ Len(io_log) = 2
    /\ io_log[1].ok
    /\ ~io_log[2].ok
    /\ \E t \in ReportedUnsorted :
         /\ path_parent(canonical_path(t)) # io_log[1].path
         /\ ~IoFailedFor(t)
         /\ ~WrittenBySort(t)

\* C10 as stated: the ecosystems sort writes go to paths that differ when
\* their titles differ, so that once sort has returned Ok(()) the file at the
\* canonical path of each of them holds its canonical text, in whatever order
\* the ecosystems were processed.
C10_AsStated ==
    pc = "done" =>
        /\ \A t1, t2 \in ReportedUnsorted :
             t1 # t2 => canonical_path(t1) # canonical_path(t2)
        /\ \A t \in ReportedUnsorted :
             disk[canonical_path(t)] = canonical_text(ecosystem_map[t])

\* sort has returned Ok(()) after writing the unsorted ecosystems "A" and "a",
\* whose texts differ, to the one path they share: the file holds the text of
\* "a" and the text of "A" is in no file.
C10_Witness ==
    /\ pc = "done"
    /\ { <<"A">>, <<"a">> } \subseteq ReportedUnsorted
    /\ canonical_path(<<"A">>) = canonical_path(<<"a">>)
    /\ disk[canonical_path(<<"A">>)] = canonical_text(ecosystem_map[<<"a">>])
    /\ \A p \in DOMAIN disk : disk[p] # canonical_text(ecosystem_map[<<"A">>])

\* C11 as stated: when the first run of sort has returned Ok(()), every
\* ecosystem validate reported as UnsortedEcosystem has its canonical text in
\* the file it was loaded from; and in a second run on the same directory
\* validate_ecosystems pushes no UnsortedEcosystem (so that run writes nothing).
C11_AsStated ==
    /\ (pc = "done" /\ runs = 1) =>
         \A t \in ReportedUnsorted :
             disk[loaded_from[t]] = canonical_text(ecosystem_map[t])
    /\ runs = 2 => OfKind(errors, "UnsortedEcosystem") = <<>>

\* The second run has validated the directory and reports as unsorted an
\* ecosystem that the first run wrote out in full: its text went to its
\* canonical path, and the map entry is again from the file at another path,
\* which the first run left as it was and which glob lists later.
C11_Witness ==
    /\ runs = 2
    /\ pc = "validated"
    /\ \E t \in ReportedUnsorted :
         /\ loaded_from[t] # canonical_path(t)
         /\ PathLess(canonical_path(t), loaded_from[t])
         /\ WrittenBySort(t)
         /\ canonical_path(t) \in DOMAIN disk
         /\ disk[canonical_path(t)] = canonical_text(ecosystem_map[t])

====
